---- MODULE Spec2Model ----
(***************************************************************************)
(* terraform-provider-binocs: the check and channel resources              *)
(* (internal/provider/resource_check.go, resource_channel.go).             *)
(*                                                                         *)
(* Strings the code takes apart (resource, up_codes, error messages) are   *)
(* sequences of one-character strings; strings it only copies are TLA+     *)
(* strings.  A handler invocation is one action: it takes the instance's   *)
(* ResourceData d, the remote system's state and a fault plan (which of    *)
(* its remote calls, if any, returns which other error) and leaves d, the  *)
(* remote state and a record of what it did (last).                        *)
(*                                                                         *)
(* The remote client (binocs-client-go) is outside the repository.  It is  *)
(* taken to give a created entity an identifier no entity it holds has, to *)
(* answer a call on an identifier it does not hold with a not-found error  *)
(* whose text holds "404", and to have no effect when a call returns an    *)
(* error.  The text of its other errors is its own: one of them holds no   *)
(* "404", one holds the digits inside a port number.                       *)
(***************************************************************************)
EXTENDS Integers, Sequences, FiniteSets, TLC

VARIABLES rtype, d, remote, last, arg, res

vars == <<rtype, d, remote, last, arg, res>>

(***************************************************************************)
(* Bounds                                                                  *)
(***************************************************************************)
\* Entries of an up_codes list.
MaxEntries == 2

(***************************************************************************)
(* Go's strings package, on sequences of characters                        *)
(***************************************************************************)
Range(s) == {s[i] : i \in DOMAIN s}

\* strings.HasPrefix
HasPrefix(s, p) == Len(s) >= Len(p) /\ SubSeq(s, 1, Len(p)) = p

\* strings.Contains
Contains(s, sub) ==
  \E i \in 1..(Len(s) - Len(sub) + 1) : SubSeq(s, i, i + Len(sub) - 1) = sub

\* strings.Split(s, sep) for a one-character sep: the pieces between the
\* separators, n+1 of them for n separators.
RECURSIVE SplitFrom(_, _, _)
SplitFrom(s, sep, cur) ==
  IF s = <<>> THEN <<cur>>
  ELSE IF Head(s) = sep THEN <<cur>> \o SplitFrom(Tail(s), sep, <<>>)
  ELSE SplitFrom(Tail(s), sep, Append(cur, Head(s)))

Split(s, sep) == SplitFrom(s, sep, <<>>)

\* strings.ToUpper, on the letters the model's strings hold
UpperOf(c) ==
  CASE c = "h" -> "H" [] c = "t" -> "T" [] c = "p" -> "P" [] c = "s" -> "S"
    [] c = "c" -> "C" [] c = "f" -> "F" [] c = "a" -> "A" [] c = "b" -> "B"
    [] OTHER -> c

ToUpper(s) == [i \in DOMAIN s |-> UpperOf(s[i])]

(***************************************************************************)
(* Constants of resource_check.go                                          *)
(***************************************************************************)
protocolHTTP == <<"H", "T", "T", "P">>
protocolHTTPS == <<"H", "T", "T", "P", "S">>
protocolTCP == <<"T", "C", "P">>

supportedHTTPMethods == {"GET", "HEAD", "POST", "PUT", "DELETE"}

(***************************************************************************)
(* Character classes and numbers                                           *)
(***************************************************************************)
DigitSeq == <<"0", "1", "2", "3", "4", "5", "6", "7", "8", "9">>

Digits == Range(DigitSeq)

DigitVal(c) == (CHOOSE i \in DOMAIN DigitSeq : DigitSeq[i] = c) - 1

HexLetters == {"a", "b", "c", "d", "e", "f", "A", "B", "C", "D", "E", "F"}

Letters ==
  {"a", "b", "c", "d", "e", "f", "g", "h", "i", "j", "k", "l", "m", "n", "o", "p", "q",
   "r", "s", "t", "u", "v", "w", "x", "y", "z",
   "A", "B", "C", "D", "E", "F", "G", "H", "I", "J", "K", "L", "M", "N", "O", "P", "Q",
   "R", "S", "T", "U", "V", "W", "X", "Y", "Z"}

AllIn(s, class) == \A i \in DOMAIN s : s[i] \in class

\* the value of a string of decimal digits
RECURSIVE DecVal(_)
DecVal(s) == IF s = <<>> THEN 0 ELSE 10 * DecVal(SubSeq(s, 1, Len(s) - 1)) + DigitVal(s[Len(s)])

\* strconv.Atoi: an optional sign, then one or more decimal digits (the
\* strings here are far too short to leave the int range)
Atoi(s) ==
  LET signed == s /= <<>> /\ s[1] \in {"+", "-"}
      digits == IF signed THEN Tail(s) ELSE s
  IN  IF digits = <<>> \/ ~AllIn(digits, Digits) THEN [ok |-> FALSE, val |-> 0]
      ELSE [ok |-> TRUE,
            val |-> IF signed /\ s[1] = "-" THEN 0 - DecVal(digits) ELSE DecVal(digits)]

\* validation.IsPortNumber
IsPortNumber(n) == 1 <= n /\ n <= 65535

(***************************************************************************)
(* net.ParseIP                                                             *)
(***************************************************************************)
\* one field of a dotted-decimal address: 1 to 3 digits, at most 255, no
\* leading zero before another digit
IsOctet(f) ==
  /\ Len(f) \in 1..3
  /\ AllIn(f, Digits)
  /\ DecVal(f) <= 255
  /\ (Len(f) > 1 => f[1] /= "0")

parseIPv4(s) ==
  LET f == Split(s, ".")
  IN  Len(f) = 4 /\ \A i \in 1..4 : IsOctet(f[i])

\* the number of leading hexadecimal digits of s
RECURSIVE HexLen(_)
HexLen(s) ==
  IF s /= <<>> /\ s[1] \in Digits \cup HexLetters THEN 1 + HexLen(Tail(s)) ELSE 0

RECURSIVE StripZeros(_)
StripZeros(s) == IF s /= <<>> /\ s[1] = "0" THEN StripZeros(Tail(s)) ELSE s

\* the end of parseIPv6: with fewer than 16 bytes parsed there must have been
\* an ellipsis to expand, with all 16 there must have been none
V6End(i, ell) == IF i < 16 THEN ell ELSE ~ell

\* parseIPv6's loop: s is what is left to parse, i the bytes parsed, ell
\* whether a "::" was seen
RECURSIVE V6Loop(_, _, _)
V6Loop(s, i, ell) ==
  IF i >= 16 THEN FALSE
  ELSE LET c == HexLen(s)
           rest == SubSeq(s, c + 1, Len(s))
           more == Tail(rest)
       IN  IF c = 0 \/ Len(StripZeros(SubSeq(s, 1, c))) > 4 THEN FALSE
           ELSE IF rest /= <<>> /\ rest[1] = "."
             THEN (ell \/ i = 12) /\ i + 4 <= 16 /\ parseIPv4(s) /\ V6End(i + 4, ell)
           ELSE IF rest = <<>> THEN V6End(i + 2, ell)
           ELSE IF rest[1] /= ":" \/ Len(rest) = 1 THEN FALSE
           ELSE IF more[1] = ":"
             THEN IF ell THEN FALSE
                  ELSE IF Len(more) = 1 THEN V6End(i + 2, TRUE)
                  ELSE i + 2 < 16 /\ V6Loop(Tail(more), i + 2, TRUE)
           ELSE i + 2 < 16 /\ V6Loop(more, i + 2, ell)

parseIPv6(s) ==
  IF HasPrefix(s, <<":", ":">>)
    THEN Len(s) = 2 \/ V6Loop(SubSeq(s, 3, Len(s)), 0, TRUE)
  ELSE V6Loop(s, 0, FALSE)

\* net.ParseIP(s) != nil
ParseIP(s) ==
  LET firstMark == {i \in DOMAIN s : s[i] \in {".", ":"}}
  IN  /\ firstMark /= {}
      /\ LET m == CHOOSE i \in firstMark : \A j \in firstMark : i <= j
         IN  IF s[m] = "." THEN parseIPv4(s) ELSE parseIPv6(s)

(***************************************************************************)
(* Errors.  A Go error is its message; kind is the model's note of where   *)
(* the error came from and is read by no handler.                          *)
(***************************************************************************)
Nil == [kind |-> "nil", msg |-> <<>>]

ValidationError(text, proto) ==
  [kind |-> "validation", msg |-> <<text>> \o proto]

\* the remote's not-found answer
NotFoundError == [kind |-> "notfound", msg |-> <<"4", "0", "4">>]

\* any other failure of a remote call
TransportError == [kind |-> "other", msg |-> <<"5", "0", "0">>]

\* a failure of the connection, whose text holds a port number:
\* "read tcp 10.0.0.5:40412->...: connection reset by peer"
ConnectionError == [kind |-> "other", msg |-> <<":", "4", "0", "4", "1", "2">>]

\* the errors, other than not-found, a remote call may return
TransportErrors == {TransportError, ConnectionError}

\* the fault plans of a handler that issues up to n remote calls: no fault,
\* or the at-th call returns err
Faults(n) == {[at |-> 0, err |-> Nil]} \cup [at : 1..n, err : TransportErrors]

\* fmt.Errorf("<text>: %s", err)
Wrap(text, err) == [kind |-> err.kind, msg |-> <<text>> \o err.msg]

\* fmt.Errorf("unable to attach Binocs channel %q to check %q: %s", ...) and
\* its detach twin: the text, the two identifiers, the cause
WrapAssoc(text, ident, check, err) ==
  [kind |-> err.kind, msg |-> <<text, ident, check>> \o err.msg]

(***************************************************************************)
(* schema.ResourceData                                                     *)
(***************************************************************************)
NoId == ""

\* d.GetOk(key): ok is false for a field that is unset or holds its zero
\* value ("" for a string, the empty set for a set)
GetOkString(v) == v /= ""

GetOkChars(v) == v /= <<>>

GetOkSet(v) == v /= {}

\* the identifiers the remote system hands out
Idents == {"k1", "k2"}

\* one remote call of a handler, as the call log keeps it: the operation, the
\* entity's identifier (for a Create, the one returned), the check identifier
\* of an Attach or Detach, and the kind of the answer ("nil": success)
Call(op, id, check, ans) == [op |-> op, id |-> id, check |-> check, ans |-> ans]

\* what a handler leaves: the ResourceData, the remote state, the calls it
\* issued, its error and its result
Outcome(dd, R, calls, err, ret) ==
  [d |-> dd, remote |-> R, calls |-> calls, err |-> err, ret |-> ret]

\* the answer of the remote system to a call on identifier id, the k-th call
\* of the handler: the planned fault, not-found, or success
Answer(R, id, k, fault) ==
  IF fault.at = k THEN fault.err
  ELSE IF id \notin DOMAIN R THEN NotFoundError
  ELSE Nil

(***************************************************************************)
(* resource_check.go: the check resource                                   *)
(***************************************************************************)
BlankCheck == [id |-> NoId, name |-> "", resource |-> <<>>, method |-> "", up_codes |-> ""]

EmptyPayload == [Name |-> "", Resource |-> <<>>, Protocol |-> <<>>, Method |-> "", UpCodes |-> ""]

\* (mutant) HTTPS is not taken for an HTTP protocol
isPlainHTTP(proto) == proto = protocolHTTP

\* payload.Protocol == protocolHTTP || payload.Protocol == protocolHTTPS
isHTTPFamily(proto) == proto = protocolHTTP \/ proto = protocolHTTPS

\* payload.Protocol = strings.ToUpper(strings.Split(v, ":")[0])
deriveProtocol(resource) == ToUpper(Split(resource, ":")[1])

\* constructCheckPayload: the payload (partial when it fails) and the error
constructCheckPayload(dd) ==
  LET p1 == IF GetOkString(dd.name) THEN [EmptyPayload EXCEPT !.Name = dd.name]
            ELSE EmptyPayload
      p2 == IF GetOkChars(dd.resource)
            THEN [p1 EXCEPT !.Resource = dd.resource,
                            !.Protocol = deriveProtocol(dd.resource)]
            ELSE p1
      http == isHTTPFamily(p2.Protocol)
      p3 == IF http /\ GetOkString(dd.method) THEN [p2 EXCEPT !.Method = dd.method] ELSE p2
      p4 == IF http /\ GetOkString(dd.up_codes) THEN [p3 EXCEPT !.UpCodes = dd.up_codes] ELSE p3
  IN  IF http /\ ~GetOkString(dd.method)
        THEN [payload |-> p2, err |-> ValidationError("expected method for a resource of", p2.Protocol)]
      ELSE IF ~http /\ GetOkString(dd.method)
        THEN [payload |-> p2, err |-> ValidationError("method cannot be used with", p2.Protocol)]
      ELSE IF http /\ ~GetOkString(dd.up_codes)
        THEN [payload |-> p3, err |-> ValidationError("expected up_codes for a resource of", p2.Protocol)]
      ELSE IF ~http /\ GetOkString(dd.up_codes)
        THEN [payload |-> p3, err |-> ValidationError("up_codes cannot be used with", p2.Protocol)]
      ELSE [payload |-> p4, err |-> Nil]

\* (mutant) a failed read forgets the identifier
checkReadForgetful(dd, R, k, fault, before) ==
  LET a == Answer(R, dd.id, k, fault)
      calls == Append(before, Call("Checks.Read", dd.id, "", a.kind))
  IN  IF a /= Nil
        THEN Outcome([dd EXCEPT !.id = NoId], R, calls,
                     Wrap("unable to read Binocs check", a), FALSE)
      ELSE Outcome([dd EXCEPT !.name = R[dd.id].Name,
                              !.resource = R[dd.id].Resource,
                              !.method = R[dd.id].Method,
                              !.up_codes = R[dd.id].UpCodes],
                   R, calls, Nil, TRUE)

\* checkRead, its remote call being the k-th of the handler.  d.Set fails only
\* on a value of the wrong type, which the client's typed fields never are.
checkRead(dd, R, k, fault, before) ==
  LET a == Answer(R, dd.id, k, fault)
      calls == Append(before, Call("Checks.Read", dd.id, "", a.kind))
  IN  IF a /= Nil
        THEN Outcome(dd, R, calls, Wrap("unable to read Binocs check", a), FALSE)
      ELSE Outcome([dd EXCEPT !.name = R[dd.id].Name,
                              !.resource = R[dd.id].Resource,
                              !.method = R[dd.id].Method,
                              !.up_codes = R[dd.id].UpCodes],
                   R, calls, Nil, TRUE)

\* (mutant) the identifier is stored before the Create call's error is looked at
checkCreateEager(dd, R, fault, ident) ==
  LET p == constructCheckPayload(dd)
  IN  IF p.err /= Nil THEN Outcome(dd, R, <<>>, p.err, FALSE)
      ELSE IF fault.at = 1
        THEN Outcome([dd EXCEPT !.id = ident], R,
                     <<Call("Checks.Create", "", "", fault.err.kind)>>,
                     Wrap("unable to create Binocs check", fault.err), FALSE)
      ELSE checkRead([dd EXCEPT !.id = ident], (ident :> p.payload) @@ R, 2, fault,
                     <<Call("Checks.Create", ident, "", Nil.kind)>>)

\* checkCreate; ident is the identifier the remote system assigns
checkCreate(dd, R, fault, ident) ==
  LET p == constructCheckPayload(dd)
  IN  IF p.err /= Nil THEN Outcome(dd, R, <<>>, p.err, FALSE)
      ELSE IF fault.at = 1
        THEN Outcome(dd, R, <<Call("Checks.Create", "", "", fault.err.kind)>>,
                     Wrap("unable to create Binocs check", fault.err), FALSE)
      ELSE checkRead([dd EXCEPT !.id = ident], (ident :> p.payload) @@ R, 2, fault,
                     <<Call("Checks.Create", ident, "", Nil.kind)>>)

\* (mutant) the marker looked for is not the one the remote system sends
Has403(err) == Contains(err.msg, <<"4", "0", "3">>)

\* strings.Contains(err.Error(), "404")
Has404(err) == Contains(err.msg, <<"4", "0", "4">>)

\* checkExists
checkExists(dd, R, fault) ==
  LET r == checkRead(dd, R, 1, fault, <<>>)
  IN  IF r.err /= Nil /\ Has404(r.err)
        THEN Outcome([r.d EXCEPT !.id = NoId], r.remote, r.calls, Nil, FALSE)
      ELSE Outcome(r.d, r.remote, r.calls, r.err, r.err = Nil)

\* (mutant) the Update call is issued before the payload's error is looked at
checkUpdateUnchecked(dd, R, fault) ==
  LET p == constructCheckPayload(dd)
      a == Answer(R, dd.id, 1, fault)
      calls == <<Call("Checks.Update", dd.id, "", a.kind)>>
  IN  IF a /= Nil
        THEN Outcome(dd, R, calls, Wrap("unable to update Binocs check", a), FALSE)
      ELSE Outcome(dd, [R EXCEPT ![dd.id] = p.payload], calls, p.err, p.err = Nil)

\* checkUpdate
checkUpdate(dd, R, fault) ==
  LET p == constructCheckPayload(dd)
      a == Answer(R, dd.id, 1, fault)
      calls == <<Call("Checks.Update", dd.id, "", a.kind)>>
  IN  IF p.err /= Nil THEN Outcome(dd, R, <<>>, p.err, FALSE)
      ELSE IF a /= Nil
        THEN Outcome(dd, R, calls, Wrap("unable to update Binocs check", a), FALSE)
      ELSE Outcome(dd, [R EXCEPT ![dd.id] = p.payload], calls, Nil, TRUE)

\* the remote state without entity id
Without(R, id) == [i \in DOMAIN R \ {id} |-> R[i]]

\* checkDelete
checkDelete(dd, R, fault) ==
  LET a == Answer(R, dd.id, 1, fault)
      calls == <<Call("Checks.Delete", dd.id, "", a.kind)>>
  IN  IF a /= Nil
        THEN Outcome(dd, R, calls, Wrap("unable to remove Binocs check", a), FALSE)
      ELSE Outcome(dd, Without(R, dd.id), calls, Nil, TRUE)

(***************************************************************************)
(* resource_check.go: the "resource" validator                             *)
(***************************************************************************)
isIP(str) == ParseIP(str)

WordChars == Letters \cup Digits \cup {"_"}

\* one label of validDNSNamePattern: [a-zA-Z0-9_]{1}[a-zA-Z0-9_-]{0,62}
IsLabel(l) ==
  /\ Len(l) \in 1..63
  /\ l[1] \in WordChars
  /\ AllIn(l, WordChars \cup {"-"})

\* ^(label){1}(\.label)*$
IsLabels(s) == LET ls == Split(s, ".") IN \A i \in DOMAIN ls : IsLabel(ls[i])

\* validDNSNamePattern: the labels, then an optional "." or "_"
MatchDNSName(s) ==
  \/ IsLabels(s)
  \/ s /= <<>> /\ s[Len(s)] \in {".", "_"} /\ IsLabels(SubSeq(s, 1, Len(s) - 1))

\* len(strings.Replace(str, ".", "", -1))
LenWithoutDots(s) == Cardinality({i \in DOMAIN s : s[i] /= "."})

isDNSName(str) ==
  IF str = <<>> \/ LenWithoutDots(str) > 255 THEN FALSE
  ELSE ~isIP(str) /\ MatchDNSName(str)

isHost(str) == isIP(str) \/ isDNSName(str)

tcpPrefix == <<"t", "c", "p", ":", "/", "/">>

httpPrefix == <<"h", "t", "t", "p">>

\* the index of the first character of s in class, 0 when there is none
FirstOf(s, class) ==
  LET hits == {i \in DOMAIN s : s[i] \in class}
  IN  IF hits = {} THEN 0 ELSE CHOOSE i \in hits : \A j \in hits : i <= j

\* strings.ToLower, on the letters the model's strings hold
LowerOf(c) ==
  CASE c = "H" -> "h" [] c = "T" -> "t" [] c = "P" -> "p" [] c = "S" -> "s"
    [] c = "C" -> "c" [] c = "F" -> "f" [] c = "A" -> "a" [] c = "B" -> "b"
    [] OTHER -> c

\* (mutant) a URL validator that takes any scheme
IsURLWithAnyScheme(v) ==
  LET colon == FirstOf(v, {":"})
      scheme == [i \in 1..(colon - 1) |-> LowerOf(v[i])]
      rest == SubSeq(v, colon + 1, Len(v))
      auth == SubSeq(rest, 3, Len(rest))
      stop == FirstOf(auth, {"/", "?", "#"})
      host == IF stop = 0 THEN auth ELSE SubSeq(auth, 1, stop - 1)
  IN  IF v = <<>> THEN <<"expected url to not be empty">>
      ELSE IF colon <= 1 \/ ~AllIn(scheme, Letters \cup Digits \cup {"+", "-", "."})
              \/ scheme[1] \notin Letters
        THEN <<"expected to be a valid url">>
      ELSE IF ~HasPrefix(rest, <<"/", "/">>) \/ host = <<>>
              \/ ~AllIn(host, WordChars \cup {"-", ".", ":"})
        THEN <<"expected to have a host">>
      ELSE <<>>

\* validation.IsURLWithHTTPorHTTPS: the errors it returns.  The value must
\* parse as a URL (net/url: a scheme of letters, digits, "+", "-", "." that
\* starts with a letter, ":", then "//" and the authority up to the next "/",
\* "?" or "#"), have a host, and have the scheme http or https, which net/url
\* lower-cases.
IsURLWithHTTPorHTTPS(v) ==
  LET colon == FirstOf(v, {":"})
      scheme == [i \in 1..(colon - 1) |-> LowerOf(v[i])]
      rest == SubSeq(v, colon + 1, Len(v))
      auth == SubSeq(rest, 3, Len(rest))
      stop == FirstOf(auth, {"/", "?", "#"})
      host == IF stop = 0 THEN auth ELSE SubSeq(auth, 1, stop - 1)
  IN  IF v = <<>> THEN <<"expected url to not be empty">>
      ELSE IF colon <= 1 \/ ~AllIn(scheme, Letters \cup Digits \cup {"+", "-", "."})
              \/ scheme[1] \notin Letters
        THEN <<"expected to be a valid url">>
      ELSE IF ~HasPrefix(rest, <<"/", "/">>) \/ host = <<>>
              \/ ~AllIn(host, WordChars \cup {"-", ".", ":"})
        THEN <<"expected to have a host">>
      ELSE IF scheme \notin {<<"h", "t", "t", "p">>, <<"h", "t", "t", "p", "s">>}
        THEN <<"expected to have a url with schema of: http,https">>
      ELSE <<>>

\* the ValidateFunc of "resource": the errors it returns
validateResource(v) ==
  IF HasPrefix(v, tcpPrefix)
    THEN LET rc == Split(SubSeq(v, 7, Len(v)), ":")
             hostErr == IF ~isHost(rc[1]) THEN <<"to contain a valid host">> ELSE <<>>
             port == Atoi(rc[2])
         IN  IF Len(rc) /= 2 THEN <<"to contain host and port components">>
             ELSE IF ~port.ok THEN Append(hostErr, "to contain a port number")
             ELSE IF ~IsPortNumber(port.val) THEN Append(hostErr, "to contain a valid port number")
             ELSE hostErr
  ELSE IF HasPrefix(v, httpPrefix) THEN IsURLWithHTTPorHTTPS(v)
  ELSE <<"to be either TCP or HTTP(S) resource">>

(***************************************************************************)
(* resource_check.go: the "up_codes" validator                             *)
(***************************************************************************)
\* (mutant) any non-zero leading digit
LeadAny == Digits \ {"0"}

\* [1-5]
LeadDigits == {"1", "2", "3", "4", "5"}

\* s[i], or "" past the end of s
At(s, i) == IF i \in DOMAIN s THEN s[i] ELSE ""

\* [1-5]{1}[0-9]{2} at position i: the positions after a match
CodeAt(s, i) ==
  IF At(s, i) \in LeadDigits /\ At(s, i + 1) \in Digits /\ At(s, i + 2) \in Digits
    THEN {i + 3} ELSE {}

\* [1-5]{1}[0-9]{2}-[1-5]{1}[0-9]{2} at position i
RangeAt(s, i) ==
  UNION {IF At(s, j) = "-" THEN CodeAt(s, j + 1) ELSE {} : j \in CodeAt(s, i)}

\* [1-5]{1}(([0-9]{2}|[0-9]{1}x)|xx) at position i
SingleAt(s, i) ==
  IF At(s, i) \notin LeadDigits THEN {}
  ELSE (IF At(s, i + 1) \in Digits /\ At(s, i + 2) \in Digits THEN {i + 3} ELSE {})
         \cup (IF At(s, i + 1) \in Digits /\ At(s, i + 2) = "x" THEN {i + 3} ELSE {})
         \cup (IF At(s, i + 1) = "x" /\ At(s, i + 2) = "x" THEN {i + 3} ELSE {})

\* one entry of validUpCodePattern: the range or the single form
EntryAt(s, i) == RangeAt(s, i) \cup SingleAt(s, i)

\* (,entry)*$ from position i
RECURSIVE TailMatches(_, _)
TailMatches(s, i) ==
  \/ i = Len(s) + 1
  \/ At(s, i) = "," /\ \E j \in EntryAt(s, i + 1) : TailMatches(s, j)

\* validUpCodePattern: ^entry(,entry)*$
MatchUpCodes(s) == \E j \in EntryAt(s, 1) : TailMatches(s, j)

\* validation.StringMatch(validUpCodePattern, ...): the errors it returns
validateUpCodes(v) ==
  IF MatchUpCodes(v) THEN <<>> ELSE <<"up_codes must be of a format such as 200, 2xx, 200-302, 200,301">>

(***************************************************************************)
(* resource_channel.go: the channel resource                               *)
(***************************************************************************)
\* the check identifiers a channel's "checks" set draws from
CheckIds == {"A", "B", "C"}

BlankChannel == [id |-> NoId, type |-> "", handle |-> "", alias |-> "", checks |-> {}]

\* (*schema.Set).List(): the elements in an order the caller does not choose
Lists(S) == {o \in [1..Cardinality(S) -> S] : Range(o) = S}

\* constructChannelPayload: it never fails
constructChannelPayload(dd) ==
  [Type |-> IF GetOkString(dd.type) THEN dd.type ELSE "",
   Handle |-> IF GetOkString(dd.handle) THEN dd.handle ELSE "",
   Alias |-> IF GetOkString(dd.alias) THEN dd.alias ELSE "",
   Checks |-> {}]

\* the remote system's effect of a successful Attach or Detach
Associate(op, R, ident, c) ==
  IF op = "Channels.Attach"
    THEN [R EXCEPT ![ident].Checks = @ \cup {c}]
  ELSE [R EXCEPT ![ident].Checks = @ \ {c}]

\* (mutant) a failed call is logged and the loop goes on with the next element
RECURSIVE AssocLoopOn(_, _, _, _, _, _, _, _, _)
AssocLoopOn(op, text, R, ident, list, i, k, fault, calls) ==
  IF i > Len(list) THEN [remote |-> R, calls |-> calls, err |-> Nil, k |-> k]
  ELSE LET a == Answer(R, ident, k, fault)
           log == Append(calls, Call(op, ident, list[i], a.kind))
           rest == AssocLoopOn(op, text, IF a = Nil THEN Associate(op, R, ident, list[i]) ELSE R,
                               ident, list, i + 1, k + 1, fault, log)
       IN  IF a /= Nil
             THEN [rest EXCEPT !.err = WrapAssoc(text, ident, list[i], a)]
           ELSE rest

\* the attach and detach loops: one call per element of list from index i on,
\* the next call being the k-th of the handler; the first error returns
RECURSIVE AssocLoop(_, _, _, _, _, _, _, _, _)
AssocLoop(op, text, R, ident, list, i, k, fault, calls) ==
  IF i > Len(list) THEN [remote |-> R, calls |-> calls, err |-> Nil, k |-> k]
  ELSE LET a == Answer(R, ident, k, fault)
           log == Append(calls, Call(op, ident, list[i], a.kind))
       IN  IF a /= Nil
             THEN [remote |-> R, calls |-> log,
                   err |-> WrapAssoc(text, ident, list[i], a), k |-> k + 1]
           ELSE AssocLoop(op, text, Associate(op, R, ident, list[i]), ident, list,
                          i + 1, k + 1, fault, log)

\* channelRead, its remote call being the k-th of the handler
channelRead(dd, R, k, fault, before) ==
  LET a == Answer(R, dd.id, k, fault)
      calls == Append(before, Call("Channels.Read", dd.id, "", a.kind))
  IN  IF a /= Nil
        THEN Outcome(dd, R, calls, Wrap("unable to read Binocs channel", a), FALSE)
      ELSE Outcome([dd EXCEPT !.type = R[dd.id].Type,
                              !.handle = R[dd.id].Handle,
                              !.alias = R[dd.id].Alias,
                              !.checks = R[dd.id].Checks],
                   R, calls, Nil, TRUE)

\* (mutant) the attach loop stops one element short of the end of checksSlice
channelCreateShort(dd, R, fault, list, ident) ==
  LET payload == constructChannelPayload(dd)
      d1 == [dd EXCEPT !.id = ident]
      R1 == (ident :> payload) @@ R
      loop == AssocLoop("Channels.Attach", "unable to attach Binocs channel to check",
                        R1, ident, SubSeq(list, 1, Len(list) - 1), 1, 2, fault,
                        <<Call("Channels.Create", ident, "", Nil.kind)>>)
  IN  IF fault.at = 1
        THEN Outcome(dd, R, <<Call("Channels.Create", "", "", fault.err.kind)>>,
                     Wrap("unable to create Binocs channel", fault.err), FALSE)
      ELSE IF loop.err /= Nil
        THEN Outcome(d1, loop.remote, loop.calls, loop.err, FALSE)
      ELSE channelRead(d1, loop.remote, loop.k, fault, loop.calls)

\* channelCreate; list is the order checksSlice comes in, ident the identifier
\* the remote system assigns
channelCreate(dd, R, fault, list, ident) ==
  LET payload == constructChannelPayload(dd)
      d1 == [dd EXCEPT !.id = ident]
      R1 == (ident :> payload) @@ R
      loop == AssocLoop("Channels.Attach", "unable to attach Binocs channel to check",
                        R1, ident, IF GetOkSet(dd.checks) THEN list ELSE <<>>, 1, 2, fault,
                        <<Call("Channels.Create", ident, "", Nil.kind)>>)
  IN  IF fault.at = 1
        THEN Outcome(dd, R, <<Call("Channels.Create", "", "", fault.err.kind)>>,
                     Wrap("unable to create Binocs channel", fault.err), FALSE)
      ELSE IF loop.err /= Nil
        THEN Outcome(d1, loop.remote, loop.calls, loop.err, FALSE)
      ELSE channelRead(d1, loop.remote, loop.k, fault, loop.calls)

\* channelExists
channelExists(dd, R, fault) ==
  LET r == channelRead(dd, R, 1, fault, <<>>)
  IN  IF r.err /= Nil /\ Has404(r.err)
        THEN Outcome([r.d EXCEPT !.id = NoId], r.remote, r.calls, Nil, FALSE)
      ELSE Outcome(r.d, r.remote, r.calls, r.err, r.err = Nil)

\* (mutant) every previous check is detached
detachAll(os, ns) == os

\* os.Difference(ns) and ns.Difference(os)
detachSet(os, ns) == os \ ns

attachSet(os, ns) == ns \ os

\* channelUpdate; os is the previous "checks" (d.GetChange), dd.checks the
\* desired one, dlist and alist the orders the two differences come in
channelUpdate(dd, os, R, fault, dlist, alist) ==
  LET payload == constructChannelPayload(dd)
      a == Answer(R, dd.id, 1, fault)
      calls == <<Call("Channels.Update", dd.id, "", a.kind)>>
      R1 == [R EXCEPT ![dd.id].Type = payload.Type,
                      ![dd.id].Handle = payload.Handle,
                      ![dd.id].Alias = payload.Alias]
      det == AssocLoop("Channels.Detach", "unable to detach Binocs channel from check",
                       R1, dd.id, dlist, 1, 2, fault, calls)
      att == AssocLoop("Channels.Attach", "unable to attach Binocs channel to check",
                       det.remote, dd.id, alist, 1, det.k, fault, det.calls)
  IN  IF a /= Nil
        THEN Outcome(dd, R, calls, Wrap("unable to update Binocs channel", a), FALSE)
      ELSE IF os = dd.checks THEN Outcome(dd, R1, calls, Nil, TRUE)
      ELSE IF det.err /= Nil THEN Outcome(dd, det.remote, det.calls, det.err, FALSE)
      ELSE IF att.err /= Nil THEN Outcome(dd, att.remote, att.calls, att.err, FALSE)
      ELSE Outcome(dd, att.remote, att.calls, Nil, TRUE)

\* channelDelete
channelDelete(dd, R, fault) ==
  LET a == Answer(R, dd.id, 1, fault)
      calls == <<Call("Channels.Delete", dd.id, "", a.kind)>>
  IN  IF a /= Nil
        THEN Outcome(dd, R, calls, Wrap("unable to remove Binocs channel", a), FALSE)
      ELSE Outcome(dd, Without(R, dd.id), calls, Nil, TRUE)

(***************************************************************************)
(* The lifecycle of one resource instance.  Handlers share no state across *)
(* instances, so a behaviour follows one instance, a check or a channel.   *)
(***************************************************************************)
\* "resource" values the schema's validator lets through
Resources ==
  { <<"h", "t", "t", "p", ":", "/", "/", "a">>,
    <<"h", "t", "t", "p", "s", ":", "/", "/", "a">>,
    <<"h", "t", "t", "p", "S", ":", "/", "/", "a">>,
    <<"t", "c", "p", ":", "/", "/", "a", ":", "8", "0">> }

Names == {"", "web"}

Methods == {"", "GET"}

UpCodes == {"", "2xx"}

Aliases == {"", "ops"}

NoOp ==
  [op |-> "none", d0 |-> BlankCheck, old |-> BlankCheck, remote0 |-> <<>>,
   calls |-> <<>>, err |-> Nil, ret |-> FALSE]

\* a handler returned r: its effects are the state, and last records the run:
\* d0 is the ResourceData the handler was given, old the instance's state
\* before the configuration was applied, remote0 the remote state at its start
Finish(op, d0, r) ==
  /\ d' = r.d
  /\ remote' = r.remote
  /\ last' = [op |-> op, d0 |-> d0, old |-> d, remote0 |-> remote,
              calls |-> r.calls, err |-> r.err, ret |-> r.ret]
  /\ UNCHANGED <<rtype, arg, res>>

Idle == last.op = "none"

CheckCreate ==
  /\ Idle /\ rtype = "check" /\ d.id = NoId
  /\ \E nm \in Names, rs \in Resources, m \in Methods, u \in UpCodes, fault \in Faults(2) :
     \E ident \in Idents \ DOMAIN remote :
       LET d0 == [BlankCheck EXCEPT !.name = nm, !.resource = rs, !.method = m, !.up_codes = u]
       IN  Finish("checkCreate", d0, checkCreate(d0, remote, fault, ident))

CheckRead ==
  /\ Idle /\ rtype = "check" /\ d.id /= NoId
  /\ \E fault \in Faults(1) : Finish("checkRead", d, checkRead(d, remote, 1, fault, <<>>))

CheckExists ==
  /\ Idle /\ rtype = "check" /\ d.id /= NoId
  /\ \E fault \in Faults(1) : Finish("checkExists", d, checkExists(d, remote, fault))

\* "resource" is ForceNew: an update never changes it
CheckUpdate ==
  /\ Idle /\ rtype = "check" /\ d.id /= NoId
  /\ \E nm \in Names, m \in Methods, u \in UpCodes, fault \in Faults(1) :
       LET d0 == [d EXCEPT !.name = nm, !.method = m, !.up_codes = u]
       IN  Finish("checkUpdate", d0, checkUpdate(d0, remote, fault))

CheckDelete ==
  /\ Idle /\ rtype = "check" /\ d.id /= NoId
  /\ \E fault \in Faults(1) : Finish("checkDelete", d, checkDelete(d, remote, fault))

ChannelCreate ==
  /\ Idle /\ rtype = "channel" /\ d.id = NoId
  /\ \E al \in Aliases, cs \in SUBSET CheckIds, ident \in Idents \ DOMAIN remote :
       \E list \in Lists(cs), fault \in Faults(Cardinality(cs) + 2) :
         LET d0 == [BlankChannel EXCEPT !.type = "email", !.handle = "a@b.c",
                                        !.alias = al, !.checks = cs]
         IN  Finish("channelCreate", d0, channelCreate(d0, remote, fault, list, ident))

ChannelRead ==
  /\ Idle /\ rtype = "channel" /\ d.id /= NoId
  /\ \E fault \in Faults(1) : Finish("channelRead", d, channelRead(d, remote, 1, fault, <<>>))

ChannelExists ==
  /\ Idle /\ rtype = "channel" /\ d.id /= NoId
  /\ \E fault \in Faults(1) : Finish("channelExists", d, channelExists(d, remote, fault))

\* "type" and "handle" are ForceNew: an update never changes them
ChannelUpdate ==
  /\ Idle /\ rtype = "channel" /\ d.id /= NoId
  /\ \E al \in Aliases, cs \in SUBSET CheckIds :
       \E dlist \in Lists(detachSet(d.checks, cs)), alist \in Lists(attachSet(d.checks, cs)) :
       \E fault \in Faults(Len(dlist) + Len(alist) + 1) :
         LET d0 == [d EXCEPT !.alias = al, !.checks = cs]
         IN  Finish("channelUpdate", d0,
                    channelUpdate(d0, d.checks, remote, fault, dlist, alist))

ChannelDelete ==
  /\ Idle /\ rtype = "channel" /\ d.id /= NoId
  /\ \E fault \in Faults(1) : Finish("channelDelete", d, channelDelete(d, remote, fault))

\* The framework takes the handler's result: it stores d as the instance's
\* state, and drops the instance (no identifier) after a Delete that returned
\* nil.  The next operation starts from there.
Persist ==
  /\ ~Idle
  /\ d' = IF last.op \in {"checkDelete", "channelDelete"} /\ last.err = Nil
            THEN [d EXCEPT !.id = NoId] ELSE d
  /\ last' = NoOp
  /\ UNCHANGED <<rtype, remote, arg, res>>

\* the entity is removed on the remote system behind the provider's back
RemoteLoss ==
  /\ Idle /\ d.id \in DOMAIN remote
  /\ remote' = Without(remote, d.id)
  /\ UNCHANGED <<rtype, d, last, arg, res>>

Init ==
  /\ rtype \in {"check", "channel"}
  /\ d = IF rtype = "check" THEN BlankCheck ELSE BlankChannel
  /\ remote = <<>>
  /\ last = NoOp
  /\ arg = <<>>
  /\ res = "none"

Next ==
  \/ CheckCreate \/ CheckRead \/ CheckExists \/ CheckUpdate \/ CheckDelete
  \/ ChannelCreate \/ ChannelRead \/ ChannelExists \/ ChannelUpdate \/ ChannelDelete
  \/ Persist \/ RemoteLoss

Spec == Init /\ [][Next]_vars

(***************************************************************************)
(* Properties of the handlers                                              *)
(***************************************************************************)
Creates == {"checkCreate", "channelCreate"}

Updates == {"checkUpdate", "channelUpdate"}

Existses == {"checkExists", "channelExists"}

AssocOps == {"Channels.Attach", "Channels.Detach"}

\* how many calls of the last run were op on check c
NumCalls(op, c) ==
  Cardinality({i \in DOMAIN last.calls : last.calls[i].op = op /\ last.calls[i].check = c})

\* the set of attached checks after the successful Attach and Detach calls of
\* a call log, from the set S on
RECURSIVE Replay(_, _)
Replay(calls, S) ==
  IF calls = <<>> THEN S
  ELSE LET c == Head(calls)
       IN  Replay(Tail(calls),
                  IF c.ans /= "nil" THEN S
                  ELSE IF c.op = "Channels.Attach" THEN S \cup {c.check}
                  ELSE IF c.op = "Channels.Detach" THEN S \ {c.check}
                  ELSE S)

\* C2: in checkCreate and checkUpdate, when payload construction fails the
\* handler returns that error, has issued no remote call, and leaves the local
\* identifier (and the remote state) as it was.
C2_ValidationBeforeNetwork ==
  (last.op \in {"checkCreate", "checkUpdate"} /\ constructCheckPayload(last.d0).err /= Nil)
    => /\ last.calls = <<>>
       /\ last.err = constructCheckPayload(last.d0).err
       /\ d.id = last.d0.id
       /\ remote = last.remote0

C2_Witness ==
  /\ last.op = "checkUpdate"
  /\ last.err.kind = "validation"
  /\ last.d0.id \in DOMAIN last.remote0

\* C3: when the Read call of checkExists or channelExists is answered
\* not-found, the local identifier is cleared and the handler returns false
\* with no error.
C3_ExistsNotFoundClears ==
  (last.op \in Existses /\ last.calls[1].ans = "notfound")
    => (d.id = NoId /\ last.ret = FALSE /\ last.err = Nil)

C3_Witness ==
  /\ last.op = "checkExists"
  /\ last.d0.id /= NoId
  /\ last.calls[1].ans = "notfound"
  /\ d.id = NoId

\* C4: a channelUpdate whose remote calls all succeed issues exactly one Detach
\* for each check in previous minus desired, exactly one Attach for each check
\* in desired minus previous, and no Attach or Detach for any other check.
C4_UpdateDiffCalls ==
  (last.op = "channelUpdate" /\ last.err = Nil)
    => \A c \in CheckIds :
         /\ NumCalls("Channels.Detach", c)
              = (IF c \in last.old.checks \ last.d0.checks THEN 1 ELSE 0)
         /\ NumCalls("Channels.Attach", c)
              = (IF c \in last.d0.checks \ last.old.checks THEN 1 ELSE 0)

C4_Witness ==
  /\ last.op = "channelUpdate" /\ last.err = Nil
  /\ last.old.checks = {"A", "B"} /\ last.d0.checks = {"B", "C"}
  /\ NumCalls("Channels.Detach", "A") = 1 /\ NumCalls("Channels.Attach", "C") = 1
  /\ Len(last.calls) = 3

\* C5: in channelCreate and channelUpdate a failed Attach or Detach call is the
\* last call of the handler (nothing is issued after it, no call undoes the
\* ones applied: the remote set of attached checks is what the successful
\* calls made it), and the returned error names the check of the failed call.
C5_FirstFailureAborts ==
  (last.op \in {"channelCreate", "channelUpdate"})
    => \A i \in DOMAIN last.calls :
         (last.calls[i].op \in AssocOps /\ last.calls[i].ans /= "nil")
           => /\ i = Len(last.calls)
              /\ last.err /= Nil
              /\ last.calls[i].check \in Range(last.err.msg)
              /\ remote[d.id].Checks
                   = Replay(last.calls,
                            IF last.op = "channelCreate" THEN {}
                            ELSE last.remote0[d.id].Checks)

C5_Witness ==
  /\ last.op = "channelUpdate" /\ last.err /= Nil
  /\ Len(last.calls) = 3
  /\ last.calls[2].op = "Channels.Detach" /\ last.calls[2].ans = "nil"
  /\ last.calls[3].op = "Channels.Attach" /\ last.calls[3].ans = "other"
  /\ Cardinality(last.d0.checks \ last.old.checks) = 2

\* C6 as stated: whenever checkUpdate or channelUpdate returns an error, the
\* remote entity is the same as before the update began.
C6_Original ==
  (last.op \in Updates /\ last.err /= Nil) => remote = last.remote0

\* C6 as amended: an error of checkUpdate, and an error of channelUpdate that
\* comes from the remote Update call, leave the remote entity as it was; an
\* error of channelUpdate that comes from a Detach or Attach call leaves the
\* channel with its fields updated and with the associations the successful
\* calls before the failure made.
C6_UpdateErrorRemote ==
  /\ (last.op = "checkUpdate" /\ last.err /= Nil) => remote = last.remote0
  /\ (last.op = "channelUpdate" /\ last.err /= Nil /\ Len(last.calls) = 1)
       => remote = last.remote0
  /\ (last.op = "channelUpdate" /\ last.err /= Nil /\ Len(last.calls) > 1)
       => /\ DOMAIN remote = DOMAIN last.remote0
          /\ remote[d.id] = [Type |-> last.d0.type, Handle |-> last.d0.handle,
                              Alias |-> last.d0.alias,
                              Checks |-> Replay(last.calls, last.remote0[d.id].Checks)]

C6_Witness ==
  /\ last.op = "channelUpdate" /\ last.err /= Nil /\ Len(last.calls) > 2
  /\ remote[d.id].Alias /= last.remote0[d.id].Alias
  /\ remote[d.id].Checks /= last.remote0[d.id].Checks

\* C7: in checkCreate and channelCreate the local identifier is set only from
\* a successful remote Create call: when the handler succeeds the identifier
\* is the one that call returned, that of the entity the remote system now
\* holds; when the Create call fails the handler returns an error, the
\* identifier stays unset and the ResourceData is as it was given.
C7_IdFromCreate ==
  (last.op \in Creates)
    => /\ last.err = Nil
            => /\ last.calls[1].op \in {"Checks.Create", "Channels.Create"}
               /\ last.calls[1].ans = "nil"
               /\ d.id = last.calls[1].id
               /\ d.id \in DOMAIN remote \ DOMAIN last.remote0
       /\ (last.calls /= <<>> /\ last.calls[1].ans /= "nil")
            => (last.err /= Nil /\ d.id = NoId /\ d = last.d0 /\ remote = last.remote0)
       /\ d.id /= NoId
            => (last.calls /= <<>> /\ last.calls[1].ans = "nil" /\ d.id = last.calls[1].id)

C7_Witness ==
  /\ last.op = "channelCreate" /\ last.err = Nil
  /\ d.id = "k2" /\ last.calls[1].id = "k2"
  /\ last.remote0 = <<>>

\* the handlers C8 is about
CrudOps ==
  {"checkCreate", "checkRead", "checkUpdate", "checkDelete",
   "channelCreate", "channelRead", "channelUpdate", "channelDelete"}

\* C8 as stated: when a create, read, update or delete handler returns a
\* remote/transport error, the ResourceData (identifier and fields) is as it
\* was when the handler began.
C8_Original ==
  (last.op \in CrudOps /\ last.err.kind = "other") => d = last.d0

\* C8 as amended: the same, except that in checkCreate and channelCreate an
\* error of a call that follows the successful remote Create (an Attach, the
\* read-back) finds the identifier already set to the one Create returned;
\* the fields are as they were.
C8_TransportErrorLocal ==
  (last.op \in CrudOps /\ last.err.kind = "other")
    => IF last.op \in Creates /\ Len(last.calls) > 1
         THEN d = [last.d0 EXCEPT !.id = last.calls[1].id] /\ d.id /= NoId
       ELSE d = last.d0

C8_Witness ==
  /\ last.op = "checkCreate" /\ last.err.kind = "other"
  /\ Len(last.calls) = 2 /\ last.calls[2].op = "Checks.Read"
  /\ d.id /= NoId /\ last.d0.id = NoId

(***************************************************************************)
(* constructCheckPayload as a function of the ResourceData: arg is the     *)
(* ResourceData, res what the function returned.  The "resource" values    *)
(* include ones the schema's validator would refuse.                       *)
(***************************************************************************)
PayloadResources ==
  Resources \cup
  { <<>>,
    <<"H", "T", "T", "P", ":", "/", "/", "a">>,
    <<"T", "C", "P", ":", "/", "/", "a", ":", "8", "0">>,
    <<"f", "t", "p", ":", "/", "/", "a">>,
    <<"h", "t", "t", "p">>,
    <<"a", ":", "8", "0">> }

PayloadInputs ==
  {[BlankCheck EXCEPT !.name = nm, !.resource = rs, !.method = m, !.up_codes = u] :
     nm \in Names, rs \in PayloadResources, m \in Methods, u \in UpCodes}

NotRun == [done |-> FALSE]

InitPayload ==
  /\ rtype = "check"
  /\ d = BlankCheck
  /\ remote = <<>>
  /\ last = NoOp
  /\ arg \in PayloadInputs
  /\ res = NotRun

BuildPayload ==
  /\ ~res.done
  /\ res' = [done |-> TRUE, out |-> constructCheckPayload(arg)]
  /\ UNCHANGED <<rtype, d, remote, last, arg>>

NextPayload == BuildPayload

SpecPayload == InitPayload /\ [][NextPayload]_vars

\* C1: when the protocol derived from "resource" is HTTP or HTTPS,
\* constructCheckPayload fails exactly when "method" or "up_codes" is absent,
\* and a payload it returns without error holds both; when the protocol is
\* TCP it fails exactly when "method" or "up_codes" is present, and a payload
\* it returns without error holds neither.
C1_ProtocolFieldRule ==
  (res.done /\ GetOkChars(arg.resource))
    => LET proto == deriveProtocol(arg.resource)
           failed == res.out.err /= Nil
       IN  /\ proto \in {protocolHTTP, protocolHTTPS}
                => /\ failed <=> (arg.method = "" \/ arg.up_codes = "")
                   /\ ~failed => /\ res.out.payload.Method = arg.method
                                  /\ res.out.payload.UpCodes = arg.up_codes
                                  /\ res.out.payload.Method /= ""
                                  /\ res.out.payload.UpCodes /= ""
           /\ proto = protocolTCP
                => /\ failed <=> (arg.method /= "" \/ arg.up_codes /= "")
                   /\ ~failed => /\ res.out.payload.Method = ""
                                  /\ res.out.payload.UpCodes = ""

C1_Witness ==
  /\ res.done
  /\ res.out.payload.Protocol = protocolHTTPS
  /\ res.out.err = Nil
  /\ res.out.payload.Method = "GET" /\ res.out.payload.UpCodes = "2xx"

(***************************************************************************)
(* The "resource" validator as a function of the value: arg is the value,  *)
(* res the errors the validator returned.                                  *)
(***************************************************************************)
HostSamples ==
  { <<"a">>, <<"a", ".", "b">>, <<"a", "-", "b", ".", "c">>, <<"a", ".">>, <<"a", "_">>,
    <<"-", "a">>, <<"a", ".", ".", "b">>, <<>>, <<"a", " ", "b">>, <<"a", "/", "b">>,
    <<"1", ".", "2", ".", "3", ".", "4">>,
    <<"2", "5", "6", ".", "1", ".", "1", ".", "1">>,
    <<"1", ".", "2", ".", "3">>,
    <<"0", "1", ".", "2", ".", "3", ".", "4">>,
    <<":", ":", "1">>, <<":", ":">>, <<"1", ":", ":", "2">>,
    <<"f", "e", "8", "0", ":", ":", "1">>,
    <<"1", ":", "2", ":", "3", ":", "4", ":", "5", ":", "6", ":", "7", ":", "8">>,
    <<":", ":", "1", ".", "2", ".", "3", ".", "4">>,
    <<"[", ":", ":", "1", "]">>,
    <<"1", ":", "2">>, <<"g", ":", ":", "1">> }

PortSamples ==
  { <<"8", "0">>, <<"1">>, <<"0">>, <<"6", "5", "5", "3", "5">>, <<"6", "5", "5", "3", "6">>,
    <<"+", "8", "0">>, <<"-", "1">>, <<>>, <<"x">>, <<"8", "x">>, <<"0", "8", "0">>,
    <<" ", "8", "0">> }

OtherResources ==
  PayloadResources \cup
  { <<"t", "c", "p", ":", "/", "a", ":", "8", "0">>,
    <<"h", "t", "t", "p", ":", "/", "/">>,
    <<"h", "t", "t", "p", "x", ":", "/", "/", "a">>,
    <<"h", "t", "t", "p", "s", ":", "/", "/", "a", ".", "b", "/", "c">>,
    <<"h", "t", "t", "p", ":", "a">> }

ResourceInputs ==
  {tcpPrefix \o h \o <<":">> \o p : h \in HostSamples, p \in PortSamples}
    \cup {tcpPrefix \o h : h \in HostSamples}
    \cup OtherResources

InitResource ==
  /\ rtype = "check"
  /\ d = BlankCheck
  /\ remote = <<>>
  /\ last = NoOp
  /\ arg \in ResourceInputs
  /\ res = NotRun

ValidateResource ==
  /\ ~res.done
  /\ res' = [done |-> TRUE, errs |-> validateResource(arg)]
  /\ UNCHANGED <<rtype, d, remote, last, arg>>

NextResource == ValidateResource

SpecResource == InitResource /\ [][NextResource]_vars

\* what follows "tcp://"
AfterScheme(v) == SubSeq(v, 7, Len(v))

\* the index of the last ":" of s, 0 when there is none
LastColon(s) ==
  LET hits == {i \in DOMAIN s : s[i] = ":"}
  IN  IF hits = {} THEN 0 ELSE CHOOSE i \in hits : \A j \in hits : i >= j

\* the host and port components of HOST:PORT: around the last ":"
HostComponent(s) == SubSeq(s, 1, LastColon(s) - 1)

PortComponent(s) == SubSeq(s, LastColon(s) + 1, Len(s))

\* C9: a "resource" value that starts with tcp:// is accepted by the
\* validator if and only if its host component is an IPv4 literal, an IPv6
\* literal or a DNS name and its port component parses as an integer in
\* 1..65535.
C9_TcpAcceptedIff ==
  (res.done /\ HasPrefix(arg, tcpPrefix))
    => LET hp == AfterScheme(arg)
       IN  (res.errs = <<>>)
             <=> /\ LastColon(hp) > 0
                 /\ isHost(HostComponent(hp))
                 /\ Atoi(PortComponent(hp)).ok
                 /\ Atoi(PortComponent(hp)).val \in 1..65535

(***************************************************************************)
(* The "up_codes" validator as a function of the value: arg is the value,  *)
(* a list of up to MaxEntries entries, res the errors the validator        *)
(* returned.                                                               *)
(***************************************************************************)
EntrySamples ==
  { <<"2", "0", "0">>, <<"2", "x", "x">>, <<"2", "0", "x">>, <<"5", "9", "9">>,
    <<"2", "0", "0", "-", "3", "0", "2">>, <<"3", "0", "1">>,
    <<"a", "b", "c">>, <<"6", "0", "0">>, <<"2", "0", "0", "-">>,
    <<"2", "x", "0">>, <<"x", "0", "0">>, <<>>, <<"2", "0">>, <<"2", "0", "0", "0">>,
    <<"2", "0", "0", "-", "6", "0", "0">>, <<"0", "9", "9">>, <<"6", "x", "x">>,
    <<"2", "x", "x", "-", "3", "x", "x">>, <<"-", "2", "0", "0">>,
    <<"2", "0", "0", "\n">>, <<"2", "0", "0", "-", "3", "0", "2", "-", "4", "0", "0">> }

RECURSIVE UpCodeLists(_)
UpCodeLists(n) ==
  IF n <= 1 THEN EntrySamples
  ELSE UpCodeLists(n - 1)
         \cup {l \o <<",">> \o e : l \in UpCodeLists(n - 1), e \in EntrySamples}

InitUpCodes ==
  /\ rtype = "check"
  /\ d = BlankCheck
  /\ remote = <<>>
  /\ last = NoOp
  /\ arg \in UpCodeLists(MaxEntries)
  /\ res = NotRun

ValidateUpCodes ==
  /\ ~res.done
  /\ res' = [done |-> TRUE, errs |-> validateUpCodes(arg)]
  /\ UNCHANGED <<rtype, d, remote, last, arg>>

NextUpCodes == ValidateUpCodes

SpecUpCodes == InitUpCodes /\ [][NextUpCodes]_vars

\* the hundreds digit of a status code
Hundreds == {"1", "2", "3", "4", "5"}

\* an exact three-digit status code
IsStatusCode(e) == Len(e) = 3 /\ e[1] \in Hundreds /\ e[2] \in Digits /\ e[3] \in Digits

\* a wildcard form: 2xx, 20x
IsWildcard(e) ==
  /\ Len(e) = 3 /\ e[1] \in Hundreds /\ e[3] = "x"
  /\ e[2] \in Digits \cup {"x"}

\* a hyphenated range NNN-NNN
IsCodeRange(e) ==
  /\ Len(e) = 7 /\ e[4] = "-"
  /\ IsStatusCode(SubSeq(e, 1, 3)) /\ IsStatusCode(SubSeq(e, 5, 7))

ValidExamples ==
  { <<"2", "0", "0">>, <<"2", "x", "x">>, <<"2", "0", "0", "-", "3", "0", "2">>,
    <<"2", "0", "0", ",", "3", "0", "1">> }

InvalidExamples == { <<"a", "b", "c">>, <<"6", "0", "0">>, <<"2", "0", "0", "-">> }

\* C10: the up_codes validator accepts a value if and only if every entry of
\* the comma-separated list is a status code, a wildcard form or a range,
\* each with a leading digit in 1-5; it accepts 200, 2xx, 200-302 and 200,301
\* and rejects abc, 600 and 200-.
C10_UpCodesGrammar ==
  res.done
    => /\ (res.errs = <<>>)
             <=> \A i \in DOMAIN Split(arg, ",") :
                   LET e == Split(arg, ",")[i]
                   IN  IsStatusCode(e) \/ IsWildcard(e) \/ IsCodeRange(e)
       /\ arg \in ValidExamples => res.errs = <<>>
       /\ arg \in InvalidExamples => res.errs /= <<>>

C10_Witness ==
  /\ res.done
  /\ arg = <<"2", "x", "x", ",", "2", "0", "0", "-", "3", "0", "2">>
  /\ res.errs = <<>>

(***************************************************************************)
(* The regions validator on its own                                        *)
(***************************************************************************)
supportedRegions ==
  << "af-south-1", "ap-east-1", "ap-northeast-1", "ap-south-1", "ap-southeast-1",
     "ap-southeast-2", "eu-central-1", "eu-west-1", "sa-east-1", "us-east-1",
     "us-west-1" >>

\* a membership test that stops one entry short of the end of the slice
stringInSliceShort(s, slice) == \E i \in 1..(Len(slice) - 1) : slice[i] = s

stringInSlice(s, slice) == \E i \in DOMAIN slice : slice[i] = s

\* fmt.Errorf("expected %q to be any of %q", "regions",
\* strings.Join(supportedRegions, ", ")): the text, the quoted field name and
\* the joined list, entry by entry
regionsError == <<"expected to be any of", "regions">> \o supportedRegions

\* the ValidateFunc of an element of "regions"; the element is a string, as
\* the schema's TypeString makes it
validateRegion(v) ==
  IF ~stringInSlice(v, supportedRegions) THEN <<regionsError>> ELSE <<>>

RECURSIVE validateElems(_)
\* the schema runs the element's ValidateFunc on every element in turn
validateElems(list) ==
  IF list = <<>> THEN <<>>
  ELSE validateRegion(Head(list)) \o validateElems(Tail(list))

\* MinItems: 1, then the elements
validateRegions(list) ==
  IF Len(list) < 1
    THEN << <<"attribute supports 1 item minimum", "regions">> >>
    ELSE validateElems(list)

\* Elements of a regions value.
MaxRegions == 2

RegionSamples ==
  Range(supportedRegions) \cup {"eu-west-2", "EU-WEST-1", "us-east", ""}

RegionInputs ==
  UNION {[1..n -> RegionSamples] : n \in 0..MaxRegions}

InitRegions ==
  /\ rtype = "check"
  /\ d = BlankCheck
  /\ remote = <<>>
  /\ last = NoOp
  /\ arg \in RegionInputs
  /\ res = NotRun

ValidateRegions ==
  /\ ~res.done
  /\ res' = [done |-> TRUE, errs |-> validateRegions(arg)]
  /\ UNCHANGED <<rtype, d, remote, last, arg>>

NextRegions == ValidateRegions

SpecRegions == InitRegions /\ [][NextRegions]_vars

\* the eleven region codes of the enumeration
RegionEnumeration ==
  { "af-south-1", "ap-east-1", "ap-northeast-1", "ap-south-1", "ap-southeast-1",
    "ap-southeast-2", "eu-central-1", "eu-west-1", "sa-east-1", "us-east-1",
    "us-west-1" }

\* the positions of a regions value that hold a value outside the enumeration
Unsupported(list) == {i \in DOMAIN list : list[i] \notin RegionEnumeration}

RECURSIVE NthOf(_, _)
\* the n-th smallest member of a set of positions
NthOf(S, n) ==
  LET m == CHOOSE x \in S : \A y \in S : x <= y
  IN  IF n = 1 THEN m ELSE NthOf(S \ {m}, n - 1)

IntBetweenOpen(min, max, v) ==
  IF v <= min \/ v >= max THEN <<"expected to be in the range">> ELSE <<>>

\* validation.IntBetween(min, max), applied to the integer v
IntBetween(min, max, v) ==
  IF v < min \/ v > max THEN <<"expected to be in the range">> ELSE <<>>

IntFields == {"interval", "up_confirmations_threshold", "down_confirmations_threshold"}

\* the ValidateFunc of each integer field of the check schema
validateInt(field, v) ==
  CASE field = "interval" -> IntBetween(5, 900, v)
    [] field = "up_confirmations_threshold" -> IntBetween(1, 10, v)
    [] field = "down_confirmations_threshold" -> IntBetween(1, 10, v)

\* The largest integer given to a validator.
MaxInt == 902

IntInputs == [field : IntFields, value : -2..MaxInt]

InitInts ==
  /\ rtype = "check"
  /\ d = BlankCheck
  /\ remote = <<>>
  /\ last = NoOp
  /\ arg \in IntInputs
  /\ res = NotRun

ValidateInt ==
  /\ ~res.done
  /\ res' = [done |-> TRUE, errs |-> validateInt(arg.field, arg.value)]
  /\ UNCHANGED <<rtype, d, remote, last, arg>>

NextInts == ValidateInt

SpecInts == InitInts /\ [][NextInts]_vars

\* C12: "interval" is accepted if and only if it lies in 5..900 (4 and 901
\* are rejected, 5 and 900 accepted); "up_confirmations_threshold" and
\* "down_confirmations_threshold" are accepted if and only if they lie in
\* 1..10.
C12_IntRanges ==
  res.done
    => /\ arg.field = "interval"
            => /\ (res.errs = <<>>) <=> arg.value \in 5..900
               /\ arg.value \in {4, 901} => res.errs /= <<>>
               /\ arg.value \in {5, 900} => res.errs = <<>>
       /\ arg.field \in {"up_confirmations_threshold", "down_confirmations_threshold"}
            => (res.errs = <<>>) <=> arg.value \in 1..10

C12_Witness ==
  /\ res.done
  /\ arg = [field |-> "interval", value |-> 900]
  /\ res.errs = <<>>

(***************************************************************************)
(* Claims on the handlers, continued                                       *)
(***************************************************************************)
\* C13: checkExists and channelExists treat only a not-found response as
\* "entity absent": when the read fails with an error that is not the
\* remote system's not-found answer, exists returns false together with the
\* error and leaves the identifier as it was.
C13_OnlyNotFoundClears ==
  (last.op \in Existses /\ last.calls /= <<>> /\ last.calls[1].ans = "other")
    => /\ last.ret = FALSE
       /\ last.err /= Nil
       /\ d.id = last.old.id

\* the positions of the calls of one operation in a call log
CallsOf(op, calls) == {i \in DOMAIN calls : calls[i].op = op}

ClassifyResource ==
  /\ res.done /\ res.errs = <<>> /\ "proto" \notin DOMAIN res
  /\ res' = [done |-> TRUE, errs |-> <<>>,
             proto |-> constructCheckPayload([BlankCheck EXCEPT !.resource = arg]).payload.Protocol]
  /\ UNCHANGED <<rtype, d, remote, last, arg>>

NextClassify == ValidateResource \/ ClassifyResource

SpecClassify == InitResource /\ [][NextClassify]_vars

\* C15: every "resource" value the validator accepts gets exactly one of the
\* protocols HTTP, HTTPS and TCP from constructCheckPayload, and the branch
\* for protocols other than HTTP and HTTPS is taken for TCP only.
C15_ProtocolClassified ==
  (res.done /\ "proto" \in DOMAIN res)
    => /\ res.proto \in { <<"H", "T", "T", "P">>, <<"H", "T", "T", "P", "S">>,
                          <<"T", "C", "P">> }
       /\ ~isHTTPFamily(res.proto) => res.proto = <<"T", "C", "P">>
       /\ res.proto = <<"T", "C", "P">> <=> HasPrefix(arg, <<"t", "c", "p", ":", "/", "/">>)

C15_Witness ==
  /\ res.done /\ "proto" \in DOMAIN res
  /\ arg = <<"h", "t", "t", "p", "S", ":", "/", "/", "a">>
  /\ res.proto = <<"H", "T", "T", "P", "S">>

\* the protocol invariant of a check payload: HTTP or HTTPS with a method
\* and up_codes, or another protocol with neither
ProtocolInvariant(p) ==
  LET http == p.Protocol \in { <<"H", "T", "T", "P">>, <<"H", "T", "T", "P", "S">> }
  IN  \/ http /\ p.Method /= "" /\ p.UpCodes /= ""
      \/ ~http /\ p.Method = "" /\ p.UpCodes = ""

\* C16: whenever checkCreate or checkUpdate has issued its remote Create or
\* Update call, the configuration it was given builds without a validation
\* error; the payload a successful call left on the remote system satisfies
\* the protocol invariant and holds the configured resource, method and
\* up_codes as they were given.
C16_SentPayloadValid ==
  (last.op \in {"checkCreate", "checkUpdate"} /\ last.calls /= <<>>)
    => LET c == last.calls[1]
           cfg == last.d0
       IN  /\ c.op \in {"Checks.Create", "Checks.Update"}
           /\ constructCheckPayload(cfg).err = Nil
           /\ cfg.method /= "" <=> cfg.up_codes /= ""
           /\ c.ans = "nil"
                => /\ c.id \in DOMAIN remote
                   /\ ProtocolInvariant(remote[c.id])
                   /\ remote[c.id].Resource = cfg.resource
                   /\ remote[c.id].Method = cfg.method
                   /\ remote[c.id].UpCodes = cfg.up_codes

C16_Witness ==
  /\ last.op = "checkUpdate"
  /\ last.err = Nil
  /\ d.id \in DOMAIN remote
  /\ remote[d.id].Protocol = <<"H", "T", "T", "P", "S">>
  /\ remote[d.id].Method = "GET"
  /\ remote[d.id].UpCodes = "2xx"

====
